---- MODULE Spec2Model ----
(***************************************************************************)
(* JACI Budget App: the two variants of the budget tracker as one state    *)
(* machine.                                                                *)
(*   variant 1  src/src/App.js          login/register/logout, transaction *)
(*                                      create/delete, derived metrics     *)
(*   variant 2  src/unnamed/part_000    anonymous session, item create,    *)
(*                                      stored summary, remote forecast    *)
(* A behaviour is a run of one of the two applications (variant is chosen  *)
(* in Init and never changes).                                             *)
(*                                                                         *)
(* React: a step of the model is one task of the event loop: the           *)
(* synchronous part of a handler, or the resumption of an async function   *)
(* after its awaited remote call settled.  The state updates of a task are *)
(* batched into one render, after which the effects whose dependencies     *)
(* changed run (Commit).  The identity provider, the document store and    *)
(* the forecast provider are collaborators: a call is issued (a record in  *)
(* pending) and settles later, with success or with failure.               *)
(***************************************************************************)
EXTENDS Integers, Sequences, FiniteSets, TLC

VARIABLES
    variant,              \* 1: src/src/App.js, 2: src/unnamed/part_000
    authUser,             \* identity provider: the signed-in user, or NoUser
    initNotified,         \* the listener's first notification was delivered
    isInitialAuthAttempt, \* App.js:70 useRef(true)
    ui,                   \* variant 1: component state (useState cells)
    pending,              \* remote calls issued and not yet settled
    store,                \* variant 1: path users/<uid>/transactions -> docs
    nextId,               \* next fresh document id
    subs,                 \* variant 1: live onSnapshot listeners per path
    ui2,                  \* variant 2: component state
    sub2,                 \* variant 2: path the two listeners are bound to
    items2,               \* variant 2: path users/<uid>/items -> docs
    summary2,             \* variant 2: users/<uid>/budgets/summary
    summaryWriteFailed,   \* history: some summary write of add-item failed
    autoLog,              \* history: what started each automatic sign-in
    now,                  \* variant 1: Date.now() of the render, in hours
    summary               \* variant 1: the summary section as rendered

vars == <<variant, authUser, initNotified, isInitialAuthAttempt, ui, pending,
          store, nextId, subs, ui2, sub2, items2, summary2, summaryWriteFailed,
          autoLog, now, summary>>

v1vars == <<isInitialAuthAttempt, ui, store, subs>>
v2vars == <<ui2, sub2, items2, summary2, summaryWriteFailed>>

-----------------------------------------------------------------------------
(* Bounds                                                                  *)

\* documents created in one run (ids 1..MaxRecords)
MaxRecords == 1
\* variant 2: items created in one run
MaxItems == 2
\* listeners counted per path; a count of MaxSubs stands for MaxSubs or more
MaxSubs == 2
\* automatic sign-ins recorded in autoLog; later ones are not recorded
MaxAuto == 2
\* remote calls the user has in flight at a time
MaxPending == 2
\* entries of a transaction list whose summary is rendered
MaxEntries == 2

-----------------------------------------------------------------------------
(* Values                                                                  *)

NoUser == "none"
AnonUid == "anon"
AccountUid == "alice"
Uids == {AnonUid, AccountUid}

\* getUserDataPath: user?.uid || 'anonymous'
AnonymousPath == "anonymous"
Paths2 == {AnonUid, AnonymousPath}

Null == "null"

(* Time: an instant is a whole number of hours, a day has HoursPerDay of   *)
(* them and starts at a multiple of HoursPerDay (local time, no change of  *)
(* the clock).  30 * 24 * 60 * 60 * 1000 ms is WindowDays * HoursPerDay.   *)
HoursPerDay == 24
WindowDays == 30
\* midnight of some day
Epoch == 100 * HoursPerDay
\* the summary section before its first render
NotRendered == [rendered |-> FALSE]

MsgAutoSignIn == "Failed to auto-sign in. Please log in or register."
MsgEnterCredentials == "Please enter email and password."
MsgProvider == "Firebase: Error (auth/invalid-credential)."
MsgLogout == "Failed to log out."
MsgAmount == "Please enter a valid positive amount."
MsgCategory == "Please enter a category."
MsgDate == "Please select a date for forecasted transactions."
MsgLogin == "Please log in to add transactions."
MsgNotReady == "Database or user not ready for deletion."
MsgConfirmDelete == "Are you sure you want to delete this transaction?"
MsgAddFailed == "Failed to add transaction. Please try again."
MsgDeleteFailed == "Failed to delete transaction. Please try again."

Min(a, b) == IF a <= b THEN a ELSE b

-----------------------------------------------------------------------------
(* Text: a string is a sequence of characters; trim() drops the leading    *)
(* and trailing white space.                                               *)

Sp == " "

RECURSIVE TrimStart(_)
TrimStart(s) ==
    IF s # <<>> /\ Head(s) = Sp THEN TrimStart(Tail(s)) ELSE s

RECURSIVE TrimEnd(_)
TrimEnd(s) ==
    IF s # <<>> /\ s[Len(s)] = Sp THEN TrimEnd(SubSeq(s, 1, Len(s) - 1)) ELSE s

Trim(s) == TrimEnd(TrimStart(s))

\* what the user can type into a text field
Texts == {<<>>, <<Sp>>, <<"a">>, <<Sp, "a", Sp>>}

(* Numbers: the value of the amount field is a string.  parseFloat and     *)
(* isNaN are tabulated on the strings the model types into the field.      *)
AmountStrings == {"", "abc", "0", "-5", "5"}

NaN == [nan |-> TRUE, v |-> 0]
Num(n) == [nan |-> FALSE, v |-> n]

parseFloat(s) ==
    CASE s = "5" -> Num(5)
      [] s = "0" -> Num(0)
      [] s = "-5" -> Num(0 - 5)
      [] OTHER -> NaN

\* isNaN(s) is Number.isNaN(Number(s)); Number("") is 0
isNaN(s) ==
    CASE s = "" -> FALSE
      [] OTHER -> parseFloat(s).nan

\* x <= 0 in JavaScript: false when x is NaN
LeqZero(x) == ~x.nan /\ x.v <= 0

-----------------------------------------------------------------------------
(* Variant 1: component state, src/src/App.js:49-70                        *)

NoAction == [id |-> 0, uid |-> NoUser]
NoData == [amount |-> 0, category |-> <<>>, type |-> "expense",
           status |-> "actual", date |-> [day |-> "", hour |-> 0]]

\* serverTimestamp(): the store fills in its own clock
ServerTimestamp == [day |-> "server", hour |-> 0]
\* Timestamp.fromDate(new Date(d + 'T12:00:00')): noon of the chosen day
NoonOf(d) == [day |-> d, hour |-> 12]

InitialState ==
    [userId |-> NoUser, isAuthReady |-> FALSE, transactions |-> <<>>,
     amount |-> "", category |-> <<>>, type |-> "expense",
     transactionStatus |-> "actual", transactionDate |-> "",
     loading |-> TRUE, error |-> Null, showModal |-> FALSE,
     modalMessage |-> "", modalAction |-> NoAction, authMode |-> "login",
     email |-> "", password |-> "", authError |-> Null]

\* the three screens of the render function, App.js:360-370
InitializingScreen == ui.loading /\ ~ui.isAuthReady /\ ui.userId = NoUser
AuthForm == ~InitializingScreen /\ (ui.userId = NoUser \/ ~ui.isAuthReady)
MainView == ~InitializingScreen /\ ui.userId # NoUser /\ ui.isAuthReady
\* the modal is an overlay of the main view: it takes every click
MainViewFree == MainView /\ ~ui.showModal

Op(k, u, i, d) == [kind |-> k, uid |-> u, id |-> i, data |-> d]

\* the user starts a remote call only while fewer than MaxPending are in flight
MayIssue == Cardinality(pending) < MaxPending

-----------------------------------------------------------------------------
(* Variant 1: the transaction effect, App.js:126-153.  fetchTransactions() *)
(* returns the unsubscribe function, and the effect drops it: the effect   *)
(* itself returns nothing, so React has no cleanup to run and a listener,  *)
(* once opened, stays.                                                     *)

Deps(s) == <<s.isAuthReady, s.userId, s.loading>>

\* [s, open]: the state after the effect ran, and the path it subscribed to
RunEffect(s) ==
    IF s.isAuthReady /\ s.userId # NoUser
    THEN [s |-> s, open |-> s.userId]
    ELSE IF ~s.isAuthReady /\ s.userId = NoUser /\ ~s.loading
         THEN [s |-> [s EXCEPT !.transactions = <<>>], open |-> NoUser]
         ELSE [s |-> s, open |-> NoUser]

\* one render: the effect runs when a dependency differs from the last render
Commit(prev, s) ==
    IF Deps(prev) = Deps(s) THEN [s |-> s, open |-> NoUser] ELSE RunEffect(s)

\* onSnapshot(q, ...): one more listener on the path; its first snapshot is due
Opened(sb, u) ==
    IF u = NoUser THEN sb
    ELSE [sb EXCEPT ![u] = [n |-> Min(@.n + 1, MaxSubs), dirty |-> TRUE]]

\* the collection at the path changed: its listeners have a snapshot due
Touched(sb, u) == [sb EXCEPT ![u].dirty = (sb[u].n > 0)]

-----------------------------------------------------------------------------
(* Variant 1: onAuthStateChanged callback, App.js:82-114                   *)

AuthUserBranch(s, user) ==
    [s EXCEPT !.userId = user, !.isAuthReady = TRUE, !.loading = FALSE,
              !.authError = Null]

AuthNullBranch(s) ==
    [s EXCEPT !.userId = NoUser, !.isAuthReady = FALSE, !.loading = FALSE]

\* the synchronous part of the callback, up to its first await
OnAuthStateChanged(s, user) ==
    IF user # NoUser THEN AuthUserBranch(s, user) ELSE AuthNullBranch(s)

\* the callback reaches signInWithCustomToken / signInAnonymously
StartsAutoSignIn(user) == user = NoUser /\ isInitialAuthAttempt

Logged(log, cause) == IF Len(log) < MaxAuto THEN Append(log, cause) ELSE log

AutoOp(log) == Op("auto", NoUser, Len(log), NoData)

\* the provider notifies the listener when the signed-in uid changes
Notifies(new) == new # authUser

\* one task ends: the batched state s is rendered and the effects run
Render(s, sb) ==
    LET c == Commit(ui, s)
    IN  /\ ui' = c.s
        /\ subs' = Opened(sb, c.open)

\* the first notification after the listener is registered, App.js:82
AuthStateInitial ==
    /\ variant = 1
    /\ ~initNotified
    /\ initNotified' = TRUE
    /\ LET start == StartsAutoSignIn(authUser)
           log == IF start THEN Logged(autoLog, "start") ELSE autoLog
       IN  /\ autoLog' = log
           /\ pending' = IF start THEN pending \cup {AutoOp(log)} ELSE pending
    /\ Render(OnAuthStateChanged(ui, authUser), subs)
    /\ UNCHANGED <<variant, authUser, isInitialAuthAttempt, store, nextId>>
    /\ UNCHANGED v2vars
    /\ UNCHANGED <<now, summary>>

\* finally of the automatic sign-in, App.js:105-109
AutoSignInFinally(s) == [s EXCEPT !.isAuthReady = FALSE, !.loading = FALSE]

(* The automatic sign-in settles, App.js:96-109.  On success the provider  *)
(* first notifies the listener (user branch), then the await returns and   *)
(* the finally block runs.  Both run off one promise resolution: whether   *)
(* React renders between them is not fixed by the code, so both outcomes   *)
(* are modelled (batched or not).                                          *)
AutoSignInSettles(op, ok, batched) ==
    /\ variant = 1
    /\ op \in pending /\ op.kind = "auto"
    /\ pending' = pending \ {op}
    /\ isInitialAuthAttempt' = FALSE
    /\ IF ok
       THEN /\ authUser' = AnonUid
            /\ LET s1 == IF Notifies(AnonUid)
                         THEN AuthUserBranch(ui, AnonUid) ELSE ui
                   c1 == Commit(ui, s1)
                   c2 == Commit(s1, AutoSignInFinally(c1.s))
               IN  IF batched
                   THEN Render(AutoSignInFinally(s1), subs)
                   ELSE /\ ui' = c2.s
                        /\ subs' = Opened(Opened(subs, c1.open), c2.open)
       ELSE /\ ~batched
            /\ authUser' = authUser
            /\ Render(AutoSignInFinally([ui EXCEPT !.authError = MsgAutoSignIn]),
                      subs)
    /\ UNCHANGED <<variant, initNotified, store, nextId, autoLog>>
    /\ UNCHANGED v2vars
    /\ UNCHANGED <<now, summary>>

-----------------------------------------------------------------------------
(* Variant 1: the auth form, App.js:156-192 and 386-447                    *)

Emails == {"", "a@x"}
Passwords == {"", "pw"}
Credentials == [email : Emails, password : Passwords]

UiStep(s) ==
    /\ variant = 1
    /\ Render(s, subs)
    /\ UNCHANGED <<variant, authUser, initNotified, isInitialAuthAttempt,
                   pending, store, nextId, autoLog>>
    /\ UNCHANGED v2vars
    /\ UNCHANGED <<now, summary>>

\* the onChange handlers of the two inputs, App.js:395 and 406
TypedCredentials(s, c) == [s EXCEPT !.email = c.email, !.password = c.password]

ToggleAuthMode ==
    /\ AuthForm
    /\ UiStep([ui EXCEPT !.authMode = IF @ = "login" THEN "register" ELSE "login"])

\* a test of the email alone (not what the code does)
EmailMissing(s) == s.email = ""

\* handleRegister and handleLogin differ only in the provider call
CredentialsMissing(s) == s.email = "" \/ s.password = ""

\* the user fills in the two inputs and clicks the button of the form
HandleCredentials(kind, c) ==
    /\ variant = 1
    /\ AuthForm /\ ui.authMode = kind /\ ~ui.loading
    /\ LET s == TypedCredentials(ui, c)
       IN  IF CredentialsMissing(s)
           THEN /\ Render([s EXCEPT !.authError = MsgEnterCredentials], subs)
                /\ pending' = pending
           ELSE /\ Op(kind, NoUser, 0, NoData) \notin pending
                /\ MayIssue
                /\ Render([s EXCEPT !.loading = TRUE, !.authError = Null], subs)
                /\ pending' = pending \cup {Op(kind, NoUser, 0, NoData)}
    /\ UNCHANGED <<variant, authUser, initNotified, isInitialAuthAttempt,
                   store, nextId, autoLog>>
    /\ UNCHANGED v2vars
    /\ UNCHANGED <<now, summary>>

HandleRegister(c) == HandleCredentials("register", c)
HandleLogin(c) == HandleCredentials("login", c)

\* the provider call of handleRegister / handleLogin settles
CredentialsSettle(kind, ok) ==
    /\ variant = 1
    /\ Op(kind, NoUser, 0, NoData) \in pending
    /\ pending' = pending \ {Op(kind, NoUser, 0, NoData)}
    /\ IF ok
       THEN /\ authUser' = AccountUid
            /\ LET s1 == IF Notifies(AccountUid)
                         THEN AuthUserBranch(ui, AccountUid) ELSE ui
               IN  Render([s1 EXCEPT !.email = "", !.password = "",
                                     !.loading = FALSE], subs)
       ELSE /\ authUser' = authUser
            /\ Render([ui EXCEPT !.authError = MsgProvider, !.loading = FALSE],
                      subs)
    /\ UNCHANGED <<variant, initNotified, isInitialAuthAttempt, store, nextId,
                   autoLog>>
    /\ UNCHANGED v2vars
    /\ UNCHANGED <<now, summary>>

RegisterSettles(ok) == CredentialsSettle("register", ok)
LoginSettles(ok) == CredentialsSettle("login", ok)

-----------------------------------------------------------------------------
(* Variant 1: handleLogout, App.js:194-208                                 *)

\* catch { setError(msg) } finally { setLoading(false) }: the failure path of
\* handleLogout (203-207), handleAddTransaction (273-278) and the delete
\* closure (292-297)
\* the same handler without its finally block: the flag stays set on failure
CatchWithoutFinally(s, msg) == [s EXCEPT !.error = msg]

CatchFinally(s, msg) == [s EXCEPT !.error = msg, !.loading = FALSE]

HandleLogout ==
    /\ variant = 1
    /\ MainViewFree /\ ~ui.loading
    /\ Op("logout", NoUser, 0, NoData) \notin pending
    /\ MayIssue
    /\ Render([ui EXCEPT !.loading = TRUE, !.error = Null], subs)
    /\ pending' = pending \cup {Op("logout", NoUser, 0, NoData)}
    /\ UNCHANGED <<variant, authUser, initNotified, isInitialAuthAttempt,
                   store, nextId, autoLog>>
    /\ UNCHANGED v2vars
    /\ UNCHANGED <<now, summary>>

(* signOut settles.  On success the listener is notified with null first   *)
(* (its null branch may start the automatic sign-in), then handleLogout    *)
(* resumes.                                                                *)
LogoutSettles(ok) ==
    /\ variant = 1
    /\ Op("logout", NoUser, 0, NoData) \in pending
    /\ IF ok
       THEN LET notified == Notifies(NoUser)
                start == notified /\ StartsAutoSignIn(NoUser)
                log == IF start THEN Logged(autoLog, "logout") ELSE autoLog
                s1 == IF notified THEN OnAuthStateChanged(ui, NoUser) ELSE ui
            IN  /\ authUser' = NoUser
                /\ autoLog' = log
                /\ pending' = (pending \ {Op("logout", NoUser, 0, NoData)})
                                \cup (IF start THEN {AutoOp(log)} ELSE {})
                /\ Render([s1 EXCEPT !.transactions = <<>>,
                                     !.authMode = "login",
                                     !.loading = FALSE], subs)
       ELSE /\ authUser' = authUser
            /\ autoLog' = autoLog
            /\ pending' = pending \ {Op("logout", NoUser, 0, NoData)}
            /\ Render(CatchFinally(ui, MsgLogout), subs)
    /\ UNCHANGED <<variant, initNotified, isInitialAuthAttempt, store, nextId>>
    /\ UNCHANGED v2vars
    /\ UNCHANGED <<now, summary>>

-----------------------------------------------------------------------------
(* Variant 1: the modal, App.js:211-228                                    *)

showCustomModal(s, message, action) ==
    [s EXCEPT !.modalMessage = message, !.modalAction = action,
              !.showModal = TRUE]

hideCustomModal(s) ==
    [s EXCEPT !.showModal = FALSE, !.modalMessage = "",
              !.modalAction = NoAction]

HideCustomModal ==
    /\ MainView /\ ui.showModal
    /\ UiStep(hideCustomModal(ui))

-----------------------------------------------------------------------------
(* Variant 1: the transaction form, App.js:549-618                         *)

Types == {"expense", "income"}
Statuses == {"actual", "forecasted"}
\* the value of the date input: empty, or a calendar day
DateStrings == {"", "2030-01-15"}

Forms ==
    [amount : AmountStrings, category : Texts, type : Types,
     transactionStatus : Statuses, transactionDate : DateStrings]

\* the onChange handlers of the form, App.js:554-616.  The date input is
\* rendered for a forecasted transaction only.
TypedForm(s, f) ==
    [s EXCEPT !.amount = f.amount, !.category = f.category, !.type = f.type,
              !.transactionStatus = f.transactionStatus,
              !.transactionDate = IF f.transactionStatus = "forecasted"
                                  THEN f.transactionDate ELSE @]

-----------------------------------------------------------------------------
(* Variant 1: handleAddTransaction, App.js:231-279                         *)

\* the check of App.js:236 without its last disjunct
AmountRejectedIfNotNumber(a) == a = "" \/ isNaN(a)

\* App.js:236
AmountRejected(a) == a = "" \/ isNaN(a) \/ LeqZero(parseFloat(a))
\* App.js:240
CategoryRejected(c) == Trim(c) = <<>>
\* App.js:244
DateRejected(s) == s.transactionStatus = "forecasted" /\ s.transactionDate = ""

\* App.js:254-265
transactionData(s) ==
    [amount |-> parseFloat(s.amount).v,
     category |-> Trim(s.category),
     type |-> s.type,
     status |-> s.transactionStatus,
     date |-> IF s.transactionStatus = "forecasted" /\ s.transactionDate # ""
              THEN NoonOf(s.transactionDate) ELSE ServerTimestamp]

\* the handler proper, on the state s of the render it was created in
AddTransaction(s) ==
    IF s.userId = NoUser
    THEN /\ Render(showCustomModal(s, MsgLogin, NoAction), subs)
         /\ UNCHANGED <<pending, nextId>>
    ELSE IF AmountRejected(s.amount)
    THEN /\ Render(showCustomModal(s, MsgAmount, NoAction), subs)
         /\ UNCHANGED <<pending, nextId>>
    ELSE IF CategoryRejected(s.category)
    THEN /\ Render(showCustomModal(s, MsgCategory, NoAction), subs)
         /\ UNCHANGED <<pending, nextId>>
    ELSE IF DateRejected(s)
    THEN /\ Render(showCustomModal(s, MsgDate, NoAction), subs)
         /\ UNCHANGED <<pending, nextId>>
    ELSE /\ nextId <= MaxRecords
         /\ MayIssue
         /\ Render([s EXCEPT !.loading = TRUE, !.error = Null], subs)
         /\ pending' = pending \cup
                       {Op("add", s.userId, nextId, transactionData(s))}
         /\ nextId' = nextId + 1

\* the user fills in the form and clicks Add Transaction
HandleAddTransaction(f) ==
    /\ variant = 1
    /\ MainViewFree /\ ~ui.loading
    /\ AddTransaction(TypedForm(ui, f))
    /\ UNCHANGED <<variant, authUser, initNotified, isInitialAuthAttempt,
                   store, autoLog>>
    /\ UNCHANGED v2vars
    /\ UNCHANGED <<now, summary>>

\* the document addDoc writes: the data under a fresh id, at the given path
Doc(op) ==
    [id |-> op.id, owner |-> op.uid, amount |-> op.data.amount,
     category |-> op.data.category, type |-> op.data.type,
     status |-> op.data.status, date |-> op.data.date]

\* the query orders by createdAt descending: the newest document is first
Inserted(docs, d) == <<d>> \o docs

\* addDoc settles, App.js:267-278
AddTransactionSettles(op, ok) ==
    /\ variant = 1
    /\ op \in pending /\ op.kind = "add"
    /\ pending' = pending \ {op}
    /\ IF ok
       THEN /\ store' = [store EXCEPT ![op.uid] = Inserted(@, Doc(op))]
            /\ Render([ui EXCEPT !.amount = "", !.category = <<>>,
                                 !.type = "expense",
                                 !.transactionStatus = "actual",
                                 !.transactionDate = "",
                                 !.loading = FALSE],
                      Touched(subs, op.uid))
       ELSE /\ store' = store
            /\ Render(CatchFinally(ui, MsgAddFailed), subs)
    /\ UNCHANGED <<variant, authUser, initNotified, isInitialAuthAttempt,
                   nextId, autoLog>>
    /\ UNCHANGED v2vars
    /\ UNCHANGED <<now, summary>>

-----------------------------------------------------------------------------
(* Variant 1: handleDeleteTransaction, App.js:281-299                      *)

Range(f) == {f[i] : i \in DOMAIN f}
Ids(docs) == {d.id : d \in Range(docs)}

\* a delete button that calls deleteDoc at once, with no prompt
DeleteWithoutPrompt(id) ==
    /\ variant = 1
    /\ MainViewFree /\ id \in Ids(ui.transactions)
    /\ Op("delete", ui.userId, id, NoData) \notin pending
    /\ Render([ui EXCEPT !.loading = TRUE, !.error = Null], subs)
    /\ pending' = pending \cup {Op("delete", ui.userId, id, NoData)}
    /\ UNCHANGED <<variant, authUser, initNotified, isInitialAuthAttempt,
                   store, nextId, autoLog>>
    /\ UNCHANGED v2vars
    /\ UNCHANGED <<now, summary>>

\* the delete button of a rendered entry: opens the prompt.  The action it
\* stores is a closure over the id and over userId of this render.
HandleDeleteTransaction(id) ==
    /\ MainViewFree /\ id \in Ids(ui.transactions)
    /\ UiStep(showCustomModal(ui, MsgConfirmDelete,
                              [id |-> id, uid |-> ui.userId]))

\* the closure of App.js:282-298, up to its await
DeleteAction(s, action) ==
    IF action.uid = NoUser
    THEN [s EXCEPT !.error = MsgNotReady]
    ELSE [s EXCEPT !.loading = TRUE, !.error = Null]

\* handleModalConfirm: run the stored action, if any, then hide the modal
HandleModalConfirm ==
    /\ variant = 1
    /\ MainView /\ ui.showModal
    /\ IF ui.modalAction # NoAction
       THEN /\ Op("delete", ui.modalAction.uid, ui.modalAction.id, NoData)
                 \notin pending
            /\ MayIssue
            /\ Render(hideCustomModal(DeleteAction(ui, ui.modalAction)), subs)
            /\ pending' = pending \cup
                          (IF ui.modalAction.uid = NoUser THEN {}
                           ELSE {Op("delete", ui.modalAction.uid,
                                    ui.modalAction.id, NoData)})
       ELSE /\ Render(hideCustomModal(ui), subs)
            /\ pending' = pending
    /\ UNCHANGED <<variant, authUser, initNotified, isInitialAuthAttempt,
                   store, nextId, autoLog>>
    /\ UNCHANGED v2vars
    /\ UNCHANGED <<now, summary>>

Removed(docs, id) == SelectSeq(docs, LAMBDA d : d.id # id)

\* deleteDoc settles, App.js:291-297
DeleteTransactionSettles(op, ok) ==
    /\ variant = 1
    /\ op \in pending /\ op.kind = "delete"
    /\ pending' = pending \ {op}
    /\ IF ok
       THEN /\ store' = [store EXCEPT ![op.uid] = Removed(@, op.id)]
            /\ Render([ui EXCEPT !.loading = FALSE],
                      IF op.id \in Ids(store[op.uid])
                      THEN Touched(subs, op.uid) ELSE subs)
       ELSE /\ store' = store
            /\ Render(CatchFinally(ui, MsgDeleteFailed), subs)
    /\ UNCHANGED <<variant, authUser, initNotified, isInitialAuthAttempt,
                   nextId, autoLog>>
    /\ UNCHANGED v2vars
    /\ UNCHANGED <<now, summary>>

-----------------------------------------------------------------------------
(* Variant 1: the onSnapshot callbacks, App.js:133-142                     *)

\* snapshot.docs.map(doc => ({id: doc.id, ...doc.data()}))
fetchedTransactions(u) == store[u]

\* a listener of path u delivers the current snapshot
SnapshotDelivered(u) ==
    /\ variant = 1
    /\ subs[u].n > 0 /\ subs[u].dirty
    /\ Render([ui EXCEPT !.transactions = fetchedTransactions(u)],
              [subs EXCEPT ![u].dirty = FALSE])
    /\ UNCHANGED <<variant, authUser, initNotified, isInitialAuthAttempt,
                   pending, store, nextId, autoLog>>
    /\ UNCHANGED v2vars
    /\ UNCHANGED <<now, summary>>

-----------------------------------------------------------------------------
MsgInvalidItem == "Please enter a valid amount and description."
MsgItemAdded == "Item added successfully!"
MsgItemError == "Error adding item."
MsgForecastDone == "Forecast generated successfully!"
MsgForecastFailed == "Failed to generate forecast."

-----------------------------------------------------------------------------
(* Variant 2: component state, src/unnamed/part_000:58-68                  *)

InitialState2 ==
    [user |-> NoUser, budget |-> 0, income |-> 0, expense |-> 0,
     items |-> <<>>, forecastItems |-> <<>>, isAuthReady |-> FALSE,
     message |-> "", isLoading |-> FALSE]

NoDoc == [exists |-> FALSE, budget |-> 0, income |-> 0, expense |-> 0]
SummaryDoc(b, i, e) == [exists |-> TRUE, budget |-> b, income |-> i, expense |-> e]

NoSub == [path |-> NoUser, summaryDue |-> FALSE, itemsDue |-> FALSE]

\* getUserDataPath, part_000:71-75: user?.uid || 'anonymous'
getUserDataPath(s) == IF s.user # NoUser THEN s.user ELSE AnonymousPath

\* the listener effect, part_000:104-133: deps [isAuthReady, user]; its
\* cleanup ends both listeners before the effect runs again
Deps2(s) == <<s.isAuthReady, s.user>>

Effect2(s, sb) ==
    IF ~s.isAuthReady \/ s.user = NoUser
    THEN NoSub
    ELSE [path |-> getUserDataPath(s), summaryDue |-> TRUE, itemsDue |-> TRUE]

Render2(s, sb) ==
    /\ ui2' = s
    /\ sub2' = IF Deps2(ui2) = Deps2(s) THEN sb ELSE Effect2(s, sb)

\* the store changed a document of the path: the listener on it has news
SummaryTouched(sb, path) ==
    IF sb.path = path THEN [sb EXCEPT !.summaryDue = TRUE] ELSE sb
ItemsTouched(sb, path) ==
    IF sb.path = path THEN [sb EXCEPT !.itemsDue = TRUE] ELSE sb

-----------------------------------------------------------------------------
(* Variant 2: onAuthStateChanged callback, part_000:81-98                  *)

AuthStateInitial2 ==
    /\ variant = 2
    /\ ~initNotified
    /\ initNotified' = TRUE
    /\ IF authUser # NoUser
       THEN /\ Render2([ui2 EXCEPT !.user = authUser, !.isAuthReady = TRUE], sub2)
            /\ pending' = pending
       ELSE /\ Render2(ui2, sub2)
            /\ pending' = pending \cup {Op("auto", NoUser, 0, NoData)}
    /\ UNCHANGED <<variant, authUser, nextId, items2, summary2,
                   summaryWriteFailed, autoLog>>
    /\ UNCHANGED v1vars
    /\ UNCHANGED <<now, summary>>

\* the automatic sign-in settles; on success the listener is notified
AutoSignIn2Settles(ok) ==
    /\ variant = 2
    /\ Op("auto", NoUser, 0, NoData) \in pending
    /\ pending' = pending \ {Op("auto", NoUser, 0, NoData)}
    /\ IF ok
       THEN /\ authUser' = AnonUid
            /\ Render2([ui2 EXCEPT !.user = AnonUid, !.isAuthReady = TRUE], sub2)
       ELSE /\ authUser' = authUser
            /\ Render2(ui2, sub2)
    /\ UNCHANGED <<variant, initNotified, nextId, items2, summary2,
                   summaryWriteFailed, autoLog>>
    /\ UNCHANGED v1vars
    /\ UNCHANGED <<now, summary>>

-----------------------------------------------------------------------------
(* Variant 2: the two onSnapshot callbacks, part_000:109-127               *)

\* data.budget || 0
OrZero(x) == IF x = 0 THEN 0 ELSE x

SummarySnapshot ==
    /\ variant = 2
    /\ sub2.path # NoUser /\ sub2.summaryDue
    /\ LET d == summary2[sub2.path]
       IN  IF d.exists
           THEN /\ Render2([ui2 EXCEPT !.budget = OrZero(d.budget),
                                       !.income = OrZero(d.income),
                                       !.expense = OrZero(d.expense)],
                           [sub2 EXCEPT !.summaryDue = FALSE])
                /\ summary2' = summary2
           ELSE \* setDoc(budgetDocRef, {budget: 0, income: 0, expense: 0})
                /\ Render2(ui2, sub2)
                /\ summary2' = [summary2 EXCEPT ![sub2.path] = SummaryDoc(0, 0, 0)]
    /\ UNCHANGED <<variant, authUser, initNotified, pending, nextId, items2,
                   summaryWriteFailed, autoLog>>
    /\ UNCHANGED v1vars
    /\ UNCHANGED <<now, summary>>

\* itemsList.sort((a, b) => b.date - a.date): by date, latest first; the sort
\* is stable
RECURSIVE InsertByDate(_, _)
InsertByDate(sorted, x) ==
    IF sorted = <<>> THEN <<x>>
    ELSE IF Head(sorted).date >= x.date
         THEN <<Head(sorted)>> \o InsertByDate(Tail(sorted), x)
         ELSE <<x>> \o sorted

RECURSIVE SortByDateDesc(_)
SortByDateDesc(list) ==
    IF list = <<>> THEN <<>>
    ELSE InsertByDate(SortByDateDesc(SubSeq(list, 1, Len(list) - 1)),
                      list[Len(list)])

ItemsSnapshot ==
    /\ variant = 2
    /\ sub2.path # NoUser /\ sub2.itemsDue
    /\ Render2([ui2 EXCEPT !.items = SortByDateDesc(items2[sub2.path])],
               [sub2 EXCEPT !.itemsDue = FALSE])
    /\ UNCHANGED <<variant, authUser, initNotified, pending, nextId, items2,
                   summary2, summaryWriteFailed, autoLog>>
    /\ UNCHANGED v1vars
    /\ UNCHANGED <<now, summary>>

-----------------------------------------------------------------------------
(* Variant 2: handleAddItem, part_000:146-186                              *)

\* the value of the date input (required): a calendar day; new Date(value)
ItemDates == {"2030-01-15", "2030-02-20"}
DateOf(d) == IF d = "2030-01-15" THEN 1 ELSE 2

ItemForms ==
    [date : ItemDates, amount : AmountStrings, type : Types, description : Texts]

\* part_000:155; a Date object is never falsy, so !date never rejects
ItemRejected(f) ==
    parseFloat(f.amount).nan \/ LeqZero(parseFloat(f.amount))
        \/ f.description = <<>>

\* the document of part_000:163-168
ItemDoc(id, f) ==
    [id |-> id, date |-> DateOf(f.date), amount |-> parseFloat(f.amount).v,
     type |-> f.type, description |-> f.description]

\* a summary whose budget an expense leaves alone (not what the code does)
SummaryOfIncomeOnly(s, type, amount) ==
    SummaryDoc(IF type = "income" THEN s.budget + amount ELSE s.budget,
               IF type = "income" THEN s.income + amount ELSE s.income,
               IF type = "expense" THEN s.expense + amount ELSE s.expense)

\* the summary of part_000:172-176, from the budget, income and expense of
\* the render in which the form was submitted
SummaryOf(s, type, amount) ==
    SummaryDoc(IF type = "income" THEN s.budget + amount ELSE s.budget - amount,
               IF type = "income" THEN s.income + amount ELSE s.income,
               IF type = "expense" THEN s.expense + amount ELSE s.expense)

HandleAddItem(f) ==
    /\ variant = 2
    /\ ~ui2.isLoading
    /\ IF ItemRejected(f)
       THEN /\ Render2([ui2 EXCEPT !.message = MsgInvalidItem], sub2)
            /\ UNCHANGED <<pending, nextId>>
       ELSE /\ nextId <= MaxItems
            /\ Render2([ui2 EXCEPT !.isLoading = TRUE], sub2)
            /\ pending' = pending \cup
                 {Op("addDoc", getUserDataPath(ui2), nextId,
                     [doc |-> ItemDoc(nextId, f),
                      summary |-> SummaryOf(ui2, f.type, parseFloat(f.amount).v)])}
            /\ nextId' = nextId + 1
    /\ UNCHANGED <<variant, authUser, initNotified, items2, summary2,
                   summaryWriteFailed, autoLog>>
    /\ UNCHANGED v1vars
    /\ UNCHANGED <<now, summary>>

\* addDoc settles, part_000:163; on success setDoc is called
AddItemSettles(op, ok) ==
    /\ variant = 2
    /\ op \in pending /\ op.kind = "addDoc"
    /\ IF ok
       THEN /\ items2' = [items2 EXCEPT ![op.uid] = Append(@, op.data.doc)]
            /\ pending' = (pending \ {op})
                            \cup {Op("setDoc", op.uid, op.id, op.data)}
            /\ Render2(ui2, ItemsTouched(sub2, op.uid))
       ELSE /\ items2' = items2
            /\ pending' = pending \ {op}
            /\ Render2([ui2 EXCEPT !.message = MsgItemError,
                                   !.isLoading = FALSE], sub2)
    /\ UNCHANGED <<variant, authUser, initNotified, nextId, summary2,
                   summaryWriteFailed, autoLog>>
    /\ UNCHANGED v1vars
    /\ UNCHANGED <<now, summary>>

\* setDoc(..., {merge: true}) settles, part_000:172-185: all three fields
\* are written, so the merge replaces the document
SummaryWriteSettles(op, ok) ==
    /\ variant = 2
    /\ op \in pending /\ op.kind = "setDoc"
    /\ pending' = pending \ {op}
    /\ IF ok
       THEN /\ summary2' = [summary2 EXCEPT ![op.uid] = op.data.summary]
            /\ summaryWriteFailed' = summaryWriteFailed
            /\ Render2([ui2 EXCEPT !.message = MsgItemAdded,
                                   !.isLoading = FALSE],
                       SummaryTouched(sub2, op.uid))
       ELSE /\ summary2' = summary2
            /\ summaryWriteFailed' = TRUE
            /\ Render2([ui2 EXCEPT !.message = MsgItemError,
                                   !.isLoading = FALSE], sub2)
    /\ UNCHANGED <<variant, authUser, initNotified, nextId, items2, autoLog>>
    /\ UNCHANGED v1vars
    /\ UNCHANGED <<now, summary>>

-----------------------------------------------------------------------------
(* Variant 2: handleForecast, part_000:188-236                             *)

\* what the provider can answer: the request fails, the body has no text
\* payload, the text is not JSON, or the text is a JSON array of months
Forecast1 == <<[month |-> "Jan", predictedBudget |-> 1]>>
Forecast2 == <<[month |-> "Jan", predictedBudget |-> 2],
               [month |-> "Feb", predictedBudget |-> 3]>>
Responses ==
    {[kind |-> "rejected", value |-> <<>>], [kind |-> "notext", value |-> <<>>],
     [kind |-> "badjson", value |-> <<>>], [kind |-> "json", value |-> Forecast1],
     [kind |-> "json", value |-> Forecast2]}

HandleForecast ==
    /\ variant = 2
    /\ ~ui2.isLoading
    /\ Render2([ui2 EXCEPT !.isLoading = TRUE], sub2)
    /\ pending' = pending \cup {Op("forecast", NoUser, 0, NoData)}
    /\ UNCHANGED <<variant, authUser, initNotified, nextId, items2, summary2,
                   summaryWriteFailed, autoLog>>
    /\ UNCHANGED v1vars
    /\ UNCHANGED <<now, summary>>

\* a catch block that also resets the list (not what the code does)
ForecastSettlesClearing(r) ==
    /\ variant = 2
    /\ Op("forecast", NoUser, 0, NoData) \in pending
    /\ pending' = pending \ {Op("forecast", NoUser, 0, NoData)}
    /\ IF r.kind = "json"
       THEN Render2([ui2 EXCEPT !.forecastItems = r.value,
                                !.message = MsgForecastDone,
                                !.isLoading = FALSE], sub2)
       ELSE Render2([ui2 EXCEPT !.forecastItems = <<>>,
                                !.message = MsgForecastFailed,
                                !.isLoading = FALSE], sub2)
    /\ UNCHANGED <<variant, authUser, initNotified, nextId, items2, summary2,
                   summaryWriteFailed, autoLog>>
    /\ UNCHANGED v1vars
    /\ UNCHANGED <<now, summary>>

\* the forecast request returns, part_000:203-235
ForecastSettles(r) ==
    /\ variant = 2
    /\ Op("forecast", NoUser, 0, NoData) \in pending
    /\ pending' = pending \ {Op("forecast", NoUser, 0, NoData)}
    /\ IF r.kind = "json"
       THEN Render2([ui2 EXCEPT !.forecastItems = r.value,
                                !.message = MsgForecastDone,
                                !.isLoading = FALSE], sub2)
       ELSE Render2([ui2 EXCEPT !.message = MsgForecastFailed,
                                !.isLoading = FALSE], sub2)
    /\ UNCHANGED <<variant, authUser, initNotified, nextId, items2, summary2,
                   summaryWriteFailed, autoLog>>
    /\ UNCHANGED v1vars
    /\ UNCHANGED <<now, summary>>

\* showMessage: setTimeout(() => setMessage(''), 3000), part_000:238-241
MessageTimeout ==
    /\ variant = 2
    /\ ui2.message # ""
    /\ Render2([ui2 EXCEPT !.message = ""], sub2)
    /\ UNCHANGED <<variant, authUser, initNotified, pending, nextId, items2,
                   summary2, summaryWriteFailed, autoLog>>
    /\ UNCHANGED v1vars
    /\ UNCHANGED <<now, summary>>

-----------------------------------------------------------------------------
V1Idle ==
    /\ isInitialAuthAttempt = TRUE
    /\ ui = InitialState
    /\ store = [u \in Uids |-> <<>>]
    /\ subs = [u \in Uids |-> [n |-> 0, dirty |-> FALSE]]

V2Idle ==
    /\ ui2 = InitialState2
    /\ sub2 = NoSub
    /\ items2 = [p \in Paths2 |-> <<>>]
    /\ summary2 = [p \in Paths2 |-> NoDoc]
    /\ summaryWriteFailed = FALSE

\* the session the provider restored: none or the account (variant 1), none
\* or the anonymous user (variant 2)
Init ==
    /\ variant \in {1, 2}
    /\ authUser \in {NoUser, IF variant = 1 THEN AccountUid ELSE AnonUid}
    /\ initNotified = FALSE
    /\ pending = {}
    /\ nextId = 1
    /\ autoLog = <<>>
    /\ now = Epoch
    /\ summary = NotRendered
    /\ V1Idle
    /\ V2Idle

Next2(forms) ==
    \/ AuthStateInitial2
    \/ \E ok \in BOOLEAN : AutoSignIn2Settles(ok)
    \/ SummarySnapshot
    \/ ItemsSnapshot
    \/ \E f \in forms : HandleAddItem(f)
    \/ \E op \in pending, ok \in BOOLEAN : AddItemSettles(op, ok)
    \/ \E op \in pending, ok \in BOOLEAN : SummaryWriteSettles(op, ok)
    \/ HandleForecast
    \/ \E r \in Responses : ForecastSettles(r)
    \/ MessageTimeout

\* the item forms of the model: every amount and type, an empty and a padded
\* description
SessionItemForms ==
    {f \in ItemForms : f.description \in {<<>>, <<Sp, "a", Sp>>}}

\* the inputs of the session model: one valid form of each type and an
\* empty one; the credentials with and without a missing field
SessionForms ==
    {f \in Forms : /\ f.amount \in {"", "5"}
                   /\ f.category = <<Sp, "a", Sp>>
                   /\ f.transactionStatus = "actual"
                   /\ f.transactionDate = ""
                   /\ (f.amount = "" => f.type = "expense")}

Next1(forms, creds) ==
    \/ AuthStateInitial
    \/ \E op \in pending, ok \in BOOLEAN, batched \in BOOLEAN :
          AutoSignInSettles(op, ok, batched)
    \/ ToggleAuthMode
    \/ \E c \in creds : HandleRegister(c)
    \/ \E c \in creds : HandleLogin(c)
    \/ \E ok \in BOOLEAN : RegisterSettles(ok)
    \/ \E ok \in BOOLEAN : LoginSettles(ok)
    \/ HandleLogout
    \/ \E ok \in BOOLEAN : LogoutSettles(ok)
    \/ HideCustomModal
    \/ \E f \in forms : HandleAddTransaction(f)
    \/ \E op \in pending, ok \in BOOLEAN : AddTransactionSettles(op, ok)
    \/ \E id \in 1..MaxRecords : HandleDeleteTransaction(id)
    \/ HandleModalConfirm
    \/ \E op \in pending, ok \in BOOLEAN : DeleteTransactionSettles(op, ok)
    \/ \E u \in Uids : SnapshotDelivered(u)

Next == Next1(SessionForms, Credentials) \/ Next2(SessionItemForms)

Spec == Init /\ [][Next]_vars

-----------------------------------------------------------------------------
(* C1: variant 1: once the identity changed (logout, another user) no      *)
(* snapshot of a subscription opened for the earlier identity is applied:  *)
(* the in-memory list holds only documents of the collection of the        *)
(* identity that is signed in.                                             *)
C1_ListIsOfCurrentIdentity ==
    variant = 1 =>
        \A i \in DOMAIN ui.transactions : ui.transactions[i].owner = ui.userId

-----------------------------------------------------------------------------
(* C2: variant 1: the automatic sign-in is attempted at most once, and     *)
(* only because no identity was present at the start: a null notification  *)
(* that a logout caused never starts one.                                  *)
C2_AutoSignInOnceAtStart ==
    variant = 1 =>
        /\ Len(autoLog) <= 1
        /\ \A i \in DOMAIN autoLog : autoLog[i] = "start"

-----------------------------------------------------------------------------
(* The session with one valid form and full credentials, and with every    *)
(* remote call and the first auth notification eventually returning.       *)

FairForms == {f \in SessionForms : f.amount = "5" /\ f.type = "expense"}
FairCredentials == {c \in Credentials : c.email # "" /\ c.password # ""}
FairItemForms ==
    {f \in SessionItemForms : /\ f.amount = "5" /\ f.type = "expense"
                              /\ f.date = "2030-01-15"
                              /\ f.description # <<>>}

FairNext == Next1(FairForms, FairCredentials) \/ Next2(FairItemForms)

RemoteCallsReturn ==
    /\ WF_vars(AuthStateInitial)
    /\ WF_vars(\E op \in pending, ok \in BOOLEAN, batched \in BOOLEAN :
                  AutoSignInSettles(op, ok, batched))
    /\ WF_vars(\E ok \in BOOLEAN : RegisterSettles(ok))
    /\ WF_vars(\E ok \in BOOLEAN : LoginSettles(ok))
    /\ WF_vars(\E ok \in BOOLEAN : LogoutSettles(ok))
    /\ WF_vars(\E op \in pending, ok \in BOOLEAN : AddTransactionSettles(op, ok))
    /\ WF_vars(\E op \in pending, ok \in BOOLEAN :
                  DeleteTransactionSettles(op, ok))
    /\ WF_vars(\E op \in pending, ok \in BOOLEAN : AddItemSettles(op, ok))
    /\ WF_vars(\E op \in pending, ok \in BOOLEAN : SummaryWriteSettles(op, ok))
    /\ WF_vars(\E r \in Responses : ForecastSettles(r))

FairSpec == Init /\ [][FairNext]_vars /\ RemoteCallsReturn

\* the remote calls of the operations that set the busy flag
BusyKinds ==
    {"register", "login", "logout", "add", "delete", "addDoc", "setDoc",
     "forecast"}

\* the operation of op ends in this step: its call returned and it makes no
\* further call (addDoc is followed by the setDoc of the summary)
Ended(op) ==
    /\ op \in pending /\ op \notin pending'
    /\ ~(op.kind = "addDoc" /\ Op("setDoc", op.uid, op.id, op.data) \in pending')

Busy == IF variant = 1 THEN ui.loading ELSE ui2.isLoading

(* C3: every operation that sets the busy flag clears it in the step in    *)
(* which its remote call returns, with success or failure; and when every  *)
(* remote call eventually returns, a set busy flag is eventually false.    *)
C3_BusyFlagCleared ==
    /\ [][\A op \in pending :
             (Ended(op) /\ op.kind \in BusyKinds) => ~Busy']_vars
    /\ (Busy ~> ~Busy)

\* C3: a delete failed, and the flag is clear
C3_FlagClearAfterFailure ==
    variant = 1 /\ ui.error = MsgDeleteFailed /\ ~ui.loading /\ pending = {}

-----------------------------------------------------------------------------
(* The create operations alone, on every form the inputs can hold.         *)

\* the date of an item is never validated: one date is enough here
FormItemForms == {f \in ItemForms : f.date = "2030-01-15"}

FormNext ==
    \/ AuthStateInitial
    \/ \E f \in Forms : HandleAddTransaction(f)
    \/ \E op \in pending, ok \in BOOLEAN : AddTransactionSettles(op, ok)
    \/ HideCustomModal
    \/ \E u \in Uids : SnapshotDelivered(u)
    \/ AuthStateInitial2
    \/ \E ok \in BOOLEAN : AutoSignIn2Settles(ok)
    \/ SummarySnapshot
    \/ ItemsSnapshot
    \/ \E f \in FormItemForms : HandleAddItem(f)
    \/ \E op \in pending, ok \in BOOLEAN : AddItemSettles(op, ok)
    \/ \E op \in pending, ok \in BOOLEAN : SummaryWriteSettles(op, ok)

FormSpec == Init /\ [][FormNext]_vars

\* an amount that is missing, not a number, or not above zero
InvalidAmounts == {"", "abc", "0", "-5"}

\* what a rejected create must leave alone, variant 1: nothing issued, the
\* flag not set, store and list as before, the fields as the user typed them
Rejected1(f) ==
    /\ pending' = pending /\ nextId' = nextId /\ store' = store
    /\ ~ui'.loading
    /\ ui'.transactions = ui.transactions
    /\ ui'.userId = ui.userId /\ ui'.isAuthReady = ui.isAuthReady
    /\ ui'.amount = f.amount /\ ui'.category = f.category
    /\ ui'.type = f.type /\ ui'.transactionStatus = f.transactionStatus
    /\ ui'.error = ui.error /\ ui'.authMode = ui.authMode

\* the same for variant 2: neither the item nor the summary is written
Rejected2 ==
    /\ pending' = pending /\ nextId' = nextId
    /\ items2' = items2 /\ summary2' = summary2
    /\ ~ui2'.isLoading
    /\ ui2'.items = ui2.items
    /\ <<ui2'.budget, ui2'.income, ui2'.expense>>
         = <<ui2.budget, ui2.income, ui2.expense>>
    /\ ui2'.forecastItems = ui2.forecastItems /\ ui2'.user = ui2.user

\* the form the user typed, read back from the controlled inputs: a step
\* of handleAddTransaction leaves every typed field in the component state
TypedInto(s) ==
    [amount |-> s.amount, category |-> s.category, type |-> s.type,
     transactionStatus |-> s.transactionStatus,
     transactionDate |-> s.transactionDate]

InvalidForm(f) == f.amount \in InvalidAmounts \/ f.category = <<>>
InvalidItemForms ==
    {f \in FormItemForms :
        f.amount \in InvalidAmounts \/ f.description = <<>>}

(* C4: in both variants a create whose amount is missing, not a number or  *)
(* not above zero, or whose category / description is empty, is rejected   *)
(* locally: nothing is issued to the store, the busy flag is not set, and  *)
(* the list and the rest of the form state stay as they were.              *)
C4_InvalidCreateRejected ==
    [][((InvalidForm(TypedInto(ui')) /\ HandleAddTransaction(TypedInto(ui')))
           => Rejected1(TypedInto(ui')))
       /\ (\A f \in InvalidItemForms : HandleAddItem(f) => Rejected2)]_vars

\* C4: a create with amount 0 was refused, with nothing in flight
C4_AmountRefused ==
    /\ variant = 1 /\ ui.amount = "0" /\ ui.category = <<"a">>
    /\ ui.modalMessage = MsgAmount /\ ui.showModal
    /\ pending = {} /\ ~ui.loading

-----------------------------------------------------------------------------
\* a text as the store must hold it: trimmed, and not empty
StoredText(x) == x = Trim(x) /\ x # <<>>

(* C5: every record a create wrote to the store, in either variant and    *)
(* for any form input, has an amount above zero and a category /           *)
(* description that is trimmed and not empty; a forecasted record carries  *)
(* the date the user supplied.                                             *)
C5_StoredRecordsValid ==
    /\ \A u \in Uids : \A d \in Range(store[u]) :
          /\ d.amount > 0
          /\ StoredText(d.category)
          /\ d.status = "forecasted" => d.date # ServerTimestamp
    /\ \A p \in Paths2 : \A d \in Range(items2[p]) :
          /\ d.amount > 0
          /\ StoredText(d.description)

-----------------------------------------------------------------------------
\* the operation of op ends in this step with its error message shown
EndsInError(op) ==
    /\ Ended(op)
    /\ \/ op.kind = "add" /\ ui'.error = MsgAddFailed
       \/ op.kind = "delete" /\ ui'.error = MsgDeleteFailed
       \/ op.kind = "logout" /\ ui'.error = MsgLogout
       \/ op.kind \in {"register", "login"} /\ ui'.authError = MsgProvider
       \/ op.kind \in {"addDoc", "setDoc"} /\ ui2'.message = MsgItemError
       \/ op.kind = "forecast" /\ ui2'.message = MsgForecastFailed

\* the step wrote nothing to the store and left the in-memory data alone
NothingApplied ==
    /\ store' = store /\ items2' = items2 /\ summary2' = summary2
    /\ ui'.transactions = ui.transactions
    /\ ui2'.items = ui2.items /\ ui2'.forecastItems = ui2.forecastItems
    /\ <<ui2'.budget, ui2'.income, ui2'.expense>>
         = <<ui2.budget, ui2.income, ui2.expense>>

\* an add-item left neither its item nor its summary in the store
NothingWritten(op) ==
    op.kind \in {"addDoc", "setDoc"} =>
        /\ op.data.doc \notin Range(items2'[op.uid])
        /\ summary2'[op.uid] # op.data.summary

(* C6: when a create, delete, auth or forecast operation ends in an error  *)
(* it is not retried, and the store and the in-memory list, summary and    *)
(* forecast list are as before; in variant 2 an add-item that reports an   *)
(* error has written neither its item nor the summary.                     *)
C6_ErrorLeavesNothingBehind ==
    [][\A op \in pending :
          EndsInError(op) =>
              /\ pending' \subseteq pending
              /\ NothingApplied
              /\ NothingWritten(op)]_vars

-----------------------------------------------------------------------------
\* the sum of the amounts of the documents of one type
RECURSIVE SumOf(_, _)
SumOf(docs, type) ==
    IF docs = <<>> THEN 0
    ELSE (IF Head(docs).type = type THEN Head(docs).amount ELSE 0)
            + SumOf(Tail(docs), type)

\* every add-item so far ran to its end, and each of them with success
AddItemsSucceeded ==
    /\ ~\E op \in pending : op.kind \in {"addDoc", "setDoc"}
    /\ ~summaryWriteFailed

(* C7: variant 2: after any sequence of successful add-item operations,    *)
(* interleaved in any way with deliveries of summary snapshots, the stored *)
(* summary's income is the sum of the stored income items and its expense  *)
(* the sum of the stored expense items.  Stated for the path the session   *)
(* is subscribed to, where snapshots of the summary are delivered.         *)
C7_SummaryMatchesItems ==
    (variant = 2 /\ AddItemsSucceeded /\ sub2.path # NoUser) =>
        /\ summary2[sub2.path].income = SumOf(items2[sub2.path], "income")
        /\ summary2[sub2.path].expense = SumOf(items2[sub2.path], "expense")

-----------------------------------------------------------------------------
\* the remote deletes this step issues
DeletesIssued == {op \in pending' \ pending : op.kind = "delete"}

(* C8: variant 1: a remote delete of a transaction is issued only by the   *)
(* confirmation of the prompt that was opened for that transaction;        *)
(* cancelling the prompt issues no delete and leaves the in-memory list    *)
(* and the store unchanged.                                                *)
C8_DeleteOnlyAfterConfirm ==
    [][/\ \A op \in DeletesIssued :
             /\ HandleModalConfirm
             /\ ui.showModal /\ ui.modalMessage = MsgConfirmDelete
             /\ ui.modalAction = [id |-> op.id, uid |-> op.uid]
       /\ HideCustomModal =>
             /\ pending' = pending /\ store' = store
             /\ ui'.transactions = ui.transactions]_vars

\* C8: the prompt for transaction 1 was confirmed and its delete is in flight
C8_DeleteInFlight ==
    /\ variant = 1 /\ ~ui.showModal
    /\ Op("delete", AccountUid, 1, NoData) \in pending

-----------------------------------------------------------------------------
\* a step of the delete operation: the click, the confirmation, or the
\* return of deleteDoc
DeleteStep ==
    \/ \E id \in 1..MaxRecords : HandleDeleteTransaction(id)
    \/ HandleModalConfirm /\ ui.modalAction # NoAction
    \/ \E op \in pending, ok \in BOOLEAN : DeleteTransactionSettles(op, ok)

(* C9: variant 1: requesting and confirming a delete never changes the     *)
(* in-memory list by itself, whether deleteDoc succeeds or fails: no step  *)
(* of the delete operation changes the list; only a snapshot does.         *)
C9_DeleteLeavesListAlone ==
    [][DeleteStep => ui'.transactions = ui.transactions]_vars

-----------------------------------------------------------------------------
(* C10: variant 1: a logout whose signOut succeeds leaves the identity     *)
(* null, the list empty and the auth mode 'login', and deletes nothing     *)
(* from the store; the list stays empty as long as no identity is          *)
(* established; a logout whose signOut fails leaves identity and list as   *)
(* they were.                                                              *)
C10_LogoutClearsSession ==
    /\ [][/\ LogoutSettles(TRUE) =>
                /\ ui'.userId = NoUser /\ ui'.transactions = <<>>
                /\ ui'.authMode = "login" /\ store' = store
          /\ LogoutSettles(FALSE) =>
                /\ ui'.userId = ui.userId
                /\ ui'.transactions = ui.transactions]_vars
    /\ [](variant = 1 /\ ui.userId = NoUser => ui.transactions = <<>>)

-----------------------------------------------------------------------------
(* Variant 1: the summary calculations, App.js:301-310.  The amount of an  *)
(* entry is whatever value the document holds: a number (NaN included),    *)
(* nothing, null, or a string.                                             *)

Undefined == [js |-> "undefined"]
NullValue == [js |-> "null"]
Str(chars) == [js |-> "string", chars |-> chars]

IsNumber(x) == "nan" \in DOMAIN x

\* (t.amount || 0): undefined, null, NaN, 0 and '' count as false
AmountOrZero(x) ==
    LET falsy == IF IsNumber(x) THEN x.nan \/ x.v = 0
                 ELSE x \in {Undefined, NullValue, Str(<<>>)}
    IN  IF falsy THEN Num(0) ELSE x

\* the decimal digits of a natural number
RECURSIVE DigitsOf(_)
DigitsOf(n) ==
    LET digit == <<"0", "1", "2", "3", "4", "5", "6", "7", "8", "9">>[(n % 10) + 1]
    IN  IF n < 10 THEN <<digit>> ELSE Append(DigitsOf(n \div 10), digit)

\* String(x) of a string or of a number (a whole number or NaN)
ToChars(x) ==
    IF ~IsNumber(x) THEN x.chars
    ELSE IF x.nan THEN <<"N", "a", "N">>
    ELSE IF x.v < 0 THEN <<"-">> \o DigitsOf(0 - x.v) ELSE DigitsOf(x.v)

\* a + b: numbers are added, and with a string on either side both are
\* written out and joined
Plus(a, b) ==
    IF IsNumber(a) /\ IsNumber(b)
    THEN (IF a.nan \/ b.nan THEN NaN ELSE Num(a.v + b.v))
    ELSE Str(ToChars(a) \o ToChars(b))

\* a - b: both sides are converted by Number(x); every string that is not
\* empty holds letters here, and the number of such a string is NaN
Minus(a, b) ==
    LET ToNumber(x) ==
            IF IsNumber(x) THEN x ELSE IF x.chars = <<>> THEN Num(0) ELSE NaN
    IN  IF ToNumber(a).nan \/ ToNumber(b).nan THEN NaN
        ELSE Num(ToNumber(a).v - ToNumber(b).v)

\* list.reduce((acc, t) => acc + (t.amount || 0), acc)
RECURSIVE SumAmounts(_, _)
SumAmounts(acc, list) ==
    IF list = <<>> THEN acc
    ELSE SumAmounts(Plus(acc, AmountOrZero(Head(list).amount)), Tail(list))

\* the income total without the filter on the status
totalIncomeOfAnyStatus(transactions) ==
    SumAmounts(Num(0), SelectSeq(transactions, LAMBDA e : e.type = "income"))

totalIncome(transactions) ==
    SumAmounts(Num(0), SelectSeq(transactions,
                   LAMBDA e : e.type = "income" /\ e.status = "actual"))

totalExpenses(transactions) ==
    SumAmounts(Num(0), SelectSeq(transactions,
                   LAMBDA e : e.type = "expense" /\ e.status = "actual"))

\* the two totals added (not what the code does)
totalsAdded(transactions) ==
    Plus(totalIncome(transactions), totalExpenses(transactions))

balance(transactions) ==
    Minus(totalIncome(transactions), totalExpenses(transactions))

\* doc.data() of the documents the application wrote: an amount is a number
Entries(docs) == [i \in DOMAIN docs |-> [docs[i] EXCEPT !.amount = Num(@)]]

-----------------------------------------------------------------------------
\* the amount of every entry of the status is a number (and not NaN)
NumericAmounts(list, status) ==
    \A i \in DOMAIN list :
        list[i].status = status =>
            IsNumber(list[i].amount) /\ ~list[i].amount.nan

\* the sum of the amounts of the entries at the indices idx
RECURSIVE AmountSum(_, _)
AmountSum(list, idx) ==
    IF idx = {} THEN 0
    ELSE LET i == CHOOSE j \in idx : TRUE
         IN  list[i].amount.v + AmountSum(list, idx \ {i})

\* the entries of a status and a type
Of(list, status, type) ==
    {i \in DOMAIN list : list[i].status = status /\ list[i].type = type}

\* the subscription of the signed-in user has delivered the current snapshot
Delivered ==
    /\ variant = 1 /\ ui.userId # NoUser /\ ui.isAuthReady
    /\ subs[ui.userId].n > 0 /\ ~subs[ui.userId].dirty

(* C11: variant 1: after creates and confirmed deletes by the signed-in    *)
(* user, once the subscription has delivered the current snapshot the list *)
(* is the stored collection and totalIncome, totalExpenses and balance are *)
(* the sums over the stored actual records; and while the user is signed   *)
(* in, the list, from which the metrics are computed, changes only by      *)
(* applying the snapshot of the user's collection as it is at that moment. *)
C11_MetricsFollowSnapshots ==
    /\ [](Delivered =>
            LET stored == Entries(store[ui.userId])
                income == AmountSum(stored, Of(stored, "actual", "income"))
                expenses == AmountSum(stored, Of(stored, "actual", "expense"))
            IN  /\ ui.transactions = store[ui.userId]
                /\ totalIncome(Entries(ui.transactions)) = Num(income)
                /\ totalExpenses(Entries(ui.transactions)) = Num(expenses)
                /\ balance(Entries(ui.transactions)) = Num(income - expenses))
    /\ [][(/\ variant = 1 /\ ui.userId # NoUser /\ ui'.userId = ui.userId
           /\ ui'.transactions # ui.transactions)
             => (SnapshotDelivered(ui.userId)
                    /\ ui'.transactions = store[ui.userId])]_vars

-----------------------------------------------------------------------------
\* the calls on the document store issued by a step: addDoc / deleteDoc of
\* variant 1, addDoc and setDoc of variant 2
Issued ==
    {op \in pending' \ pending : op.kind \in {"add", "delete", "addDoc", "setDoc"}}

\* the paths on which a step opened a listener
Subscribed ==
    IF variant = 1
    THEN {u \in Uids : subs'[u].n > subs[u].n}
    ELSE {p \in Paths2 : sub2'.path = p /\ sub2.path # p}

(* C12: both variants: every insert, delete, summary write and            *)
(* subscription is on the path of the identity that is signed in when it   *)
(* starts, and while no identity is signed in no store call is issued.     *)
C12_OperationsUnderSignedInIdentity ==
    [][/\ \A op \in Issued : authUser # NoUser /\ op.uid = authUser
       /\ \A p \in Subscribed : authUser' # NoUser /\ p = authUser']_vars

-----------------------------------------------------------------------------
(* C13: variant 1: at any time at most one transaction subscription is     *)
(* live for the ready identity.                                            *)
C13_OneSubscription ==
    (variant = 1 /\ ui.isAuthReady /\ ui.userId # NoUser)
        => subs[ui.userId].n <= 1

-----------------------------------------------------------------------------
\* a step in which the forecast request returns
ForecastReturns ==
    /\ Op("forecast", NoUser, 0, NoData) \in pending
    /\ Op("forecast", NoUser, 0, NoData) \notin pending'

(* C14: variant 2: handleForecast fails or replaces the forecast list      *)
(* wholesale: when the request is rejected, the response has no text or    *)
(* the text is not JSON, a failure is reported and the list keeps its      *)
(* value; on success the list is exactly the parsed result; and no other   *)
(* step changes the list.                                                  *)
C14_ForecastAllOrNothing ==
    [][/\ ForecastReturns =>
            \A r \in Responses : ForecastSettles(r) =>
                IF r.kind = "json"
                THEN /\ ui2'.forecastItems = r.value
                     /\ ui2'.message = MsgForecastDone
                ELSE /\ ui2'.forecastItems = ui2.forecastItems
                     /\ ui2'.message = MsgForecastFailed
       /\ ui2'.forecastItems # ui2.forecastItems => ForecastReturns]_vars

\* a failed request after a successful one: the earlier forecast is shown
C14_FailureKeepsForecast ==
    /\ variant = 2
    /\ ui2.message = MsgForecastFailed
    /\ ui2.forecastItems = Forecast2
    /\ ~ui2.isLoading

-----------------------------------------------------------------------------
-----------------------------------------------------------------------------
(* Variant 1: the summary section, App.js:301-358 and 493-539.  The        *)
(* figures are computed in every render of App from the transactions of    *)
(* that render and from Date.now().                                        *)

\* Timestamp.fromDate(new Date(h)) and its toDate()
Timestamp(h) == [js |-> "timestamp", hours |-> h]
toDate(ts) == ts.hours

\* t.date && t.date.toDate
HasDate(t) == t.date.js = "timestamp"

\* d.setHours(0, 0, 0, 0)
StartOfDay(h) == h - (h % HoursPerDay)
\* d.setHours(23, 59, 59, 999): the last instant of the day
EndOfDay(h) == StartOfDay(h) + HoursPerDay - 1

\* 30 * 24 * 60 * 60 * 1000
ThirtyDays == WindowDays * HoursPerDay

\* the two sums started from NaN instead of 0 (not what the code does)
CashFlowFromNaN(counted) ==
    LET income == SumAmounts(NaN,
                      SelectSeq(counted, LAMBDA t : t.type = "income"))
        expenses == SumAmounts(NaN,
                      SelectSeq(counted, LAMBDA t : t.type = "expense"))
    IN  [income |-> income, expenses |-> expenses,
         net |-> Minus(income, expenses)]

\* the two sums of a forEach: income += (t.amount || 0), else-if expense
CashFlow(counted) ==
    LET income == SumAmounts(Num(0),
                      SelectSeq(counted, LAMBDA t : t.type = "income"))
        expenses == SumAmounts(Num(0),
                      SelectSeq(counted, LAMBDA t : t.type = "expense"))
    IN  [income |-> income, expenses |-> expenses,
         net |-> Minus(income, expenses)]

\* the trailing figures without the test on the date (not what the code does)
actualCashFlowOfAllTime(transactions, clock) ==
    CashFlow(SelectSeq(transactions, LAMBDA t : t.status = "actual"))

\* App.js:313-328
getActualCashFlowForLast30Days(transactions, clock) ==
    LET thirtyDaysAgo == Timestamp(clock - ThirtyDays)
    IN  CashFlow(SelectSeq(transactions,
            LAMBDA t : /\ t.status = "actual"
                       /\ HasDate(t)
                       /\ toDate(t.date) >= toDate(thirtyDaysAgo)))

\* the forward window without the two setHours calls (not what the code does)
forecastCashFlowFromNow(transactions, clock) ==
    CashFlow(SelectSeq(transactions,
        LAMBDA t : /\ t.status = "forecasted"
                   /\ HasDate(t)
                   /\ toDate(t.date) >= clock
                   /\ toDate(t.date) <= clock + ThirtyDays))

\* App.js:333-356
getForecastCashFlowForNext30Days(transactions, clock) ==
    LET today == StartOfDay(clock)
        thirtyDaysFromNow == EndOfDay(clock + ThirtyDays)
    IN  CashFlow(SelectSeq(transactions,
            LAMBDA t : /\ t.status = "forecasted"
                       /\ HasDate(t)
                       /\ toDate(t.date) >= today
                       /\ toDate(t.date) <= thirtyDaysFromNow))

\* the figures of one render
Figures(transactions, clock) ==
    [totalIncome |-> totalIncome(transactions),
     totalExpenses |-> totalExpenses(transactions),
     balance |-> balance(transactions),
     actualCashFlow30Days |-> getActualCashFlowForLast30Days(transactions, clock),
     forecastCashFlow30Days |->
         getForecastCashFlowForNext30Days(transactions, clock)]

\* x.toFixed(2) of a whole number or NaN; a string has no toFixed method and
\* the call throws a TypeError
toFixed2(x) ==
    IF ~IsNumber(x) THEN <<"T", "y", "p", "e", "E", "r", "r", "o", "r">>
    ELSE IF x.nan THEN ToChars(x)
    ELSE ToChars(x) \o <<".", "0", "0">>

\* the render of the section: the figures, the text of the nine values it
\* prints, and whether a toFixed call threw
Rendered(transactions, clock) ==
    LET f == Figures(transactions, clock)
        printed ==
            <<f.totalIncome, f.totalExpenses, f.balance,
              f.actualCashFlow30Days.income, f.actualCashFlow30Days.expenses,
              f.actualCashFlow30Days.net,
              f.forecastCashFlow30Days.income,
              f.forecastCashFlow30Days.expenses, f.forecastCashFlow30Days.net>>
    IN  [rendered |-> TRUE,
         figures |-> f,
         text |-> [i \in 1..9 |-> toFixed2(printed[i])],
         threw |-> \E i \in 1..9 : ~IsNumber(printed[i])]

-----------------------------------------------------------------------------
(* The summary section over every list: the documents of a collection can  *)
(* be written by any client, so the entries of a delivered list carry any  *)
(* amount and any date.                                                    *)

\* the instants a render can take place at: a midnight and an afternoon
Nows == {Epoch, Epoch + 13}

\* the instants around the bounds of the two windows of a render at clock
InstantsAt(clock) ==
    {clock - 31 * HoursPerDay, clock - ThirtyDays - 1, clock - ThirtyDays,
     StartOfDay(clock) - 1, StartOfDay(clock), clock + 10 * HoursPerDay,
     EndOfDay(clock + ThirtyDays), EndOfDay(clock + ThirtyDays) + 1,
     clock + 40 * HoursPerDay}

\* an amount field: a number, NaN, missing, null or a string
AmountValues == {Num(5), NaN, Undefined, NullValue, Str(<<"a", "b", "c">>)}

\* the date field is a Timestamp, or null (a server timestamp not yet
\* resolved)
EntriesAt(clock) ==
    [type : Types, status : Statuses, amount : AmountValues,
     date : {NullValue} \cup {Timestamp(h) : h \in InstantsAt(clock)}]

\* the main view of a restored session after a snapshot delivered a list
MetricsInit ==
    /\ variant = 1
    /\ authUser = AccountUid
    /\ initNotified = TRUE
    /\ isInitialAuthAttempt = TRUE
    /\ pending = {}
    /\ nextId = 1
    /\ autoLog = <<>>
    /\ now \in Nows
    /\ \E list \in UNION {[1..n -> EntriesAt(now)] : n \in 0..MaxEntries} :
          ui = [AuthUserBranch(InitialState, AccountUid)
                    EXCEPT !.transactions = list]
    /\ store = [u \in Uids |-> <<>>]
    /\ subs = [u \in Uids |->
                  [n |-> IF u = AccountUid THEN 1 ELSE 0, dirty |-> FALSE]]
    /\ summary = NotRendered
    /\ V2Idle

\* App renders the main view: the figures of ui.transactions at Date.now()
RenderSummary ==
    /\ variant = 1
    /\ MainView
    /\ summary' = Rendered(ui.transactions, now)
    /\ UNCHANGED <<variant, authUser, initNotified, pending, nextId, autoLog,
                   now>>
    /\ UNCHANGED v1vars
    /\ UNCHANGED v2vars

MetricsSpec == MetricsInit /\ [][RenderSummary]_vars

\* the list without its i-th entry
Without(list, i) == SubSeq(list, 1, i - 1) \o SubSeq(list, i + 1, Len(list))

(* C16: variant 1: for every list, an entry with status forecasted         *)
(* contributes to none of totalIncome, totalExpenses, balance and the      *)
(* trailing 30-day figures, and an entry with status actual contributes to *)
(* none of the forward 30-day figures: the figures are those of the list   *)
(* without the entry.                                                      *)
C16_StatusSeparatesFigures ==
    summary.rendered =>
        \A i \in DOMAIN ui.transactions :
            LET rest == Figures(Without(ui.transactions, i), now)
                f == summary.figures
            IN  /\ ui.transactions[i].status = "forecasted" =>
                      /\ f.totalIncome = rest.totalIncome
                      /\ f.totalExpenses = rest.totalExpenses
                      /\ f.balance = rest.balance
                      /\ f.actualCashFlow30Days = rest.actualCashFlow30Days
                /\ ui.transactions[i].status = "actual" =>
                      f.forecastCashFlow30Days = rest.forecastCashFlow30Days

\* a forecasted income of today and an actual income of today, each counted
\* in its own figures only
C16_OneOfEachStatus ==
    /\ summary.rendered
    /\ Len(ui.transactions) = 2
    /\ \E i, j \in DOMAIN ui.transactions :
          /\ ui.transactions[i] =
                [type |-> "income", status |-> "forecasted", amount |-> Num(5),
                 date |-> Timestamp(StartOfDay(now))]
          /\ ui.transactions[j] =
                [type |-> "income", status |-> "actual", amount |-> Num(5),
                 date |-> Timestamp(StartOfDay(now))]
    /\ summary.figures.totalIncome = Num(5)
    /\ summary.figures.actualCashFlow30Days.income = Num(5)
    /\ summary.figures.forecastCashFlow30Days.income = Num(5)

-----------------------------------------------------------------------------
\* the entries dated from the first instant of today to the last instant of
\* the day that lies 30 days after the clock
Forward(list, clock) ==
    LET today == clock \div HoursPerDay
        lastDay == (clock + WindowDays * HoursPerDay) \div HoursPerDay
    IN  {i \in DOMAIN list :
            /\ HasDate(list[i])
            /\ today * HoursPerDay <= list[i].date.hours
            /\ list[i].date.hours <= (lastDay + 1) * HoursPerDay - 1}

(* C17: variant 1: the forward figures are, separately for income and      *)
(* expense, the sums of the amounts of exactly the forecasted entries      *)
(* dated d with start of today <= d <= end of the day 30 days after now,   *)
(* and net is income - expenses; so an entry 10 days ahead is counted and  *)
(* one 40 days ahead is not.                                               *)
C17_ForwardWindow ==
    (summary.rendered /\ NumericAmounts(ui.transactions, "forecasted")) =>
        LET list == ui.transactions
            income == AmountSum(list, Of(list, "forecasted", "income")
                                        \cap Forward(list, now))
            expenses == AmountSum(list, Of(list, "forecasted", "expense")
                                          \cap Forward(list, now))
        IN  summary.figures.forecastCashFlow30Days =
                [income |-> Num(income), expenses |-> Num(expenses),
                 net |-> Num(income - expenses)]

\* forecasted incomes 10 and 40 days ahead: the first one only is counted
C17_TenDaysNotForty ==
    /\ summary.rendered
    /\ ui.transactions =
         <<[type |-> "income", status |-> "forecasted", amount |-> Num(5),
            date |-> Timestamp(now + 10 * HoursPerDay)],
           [type |-> "income", status |-> "forecasted", amount |-> Num(5),
            date |-> Timestamp(now + 40 * HoursPerDay)]>>
    /\ summary.figures.forecastCashFlow30Days =
         [income |-> Num(5), expenses |-> Num(0), net |-> Num(5)]

-----------------------------------------------------------------------------
\* the entries dated at or after the instant 30 days before the clock
Trailing(list, clock) ==
    {i \in DOMAIN list :
        /\ HasDate(list[i])
        /\ list[i].date.hours >= clock - WindowDays * HoursPerDay}

(* C18: variant 1: the trailing figures are, separately for income and     *)
(* expense, the sums of the amounts of exactly the actual entries dated at *)
(* or after now - 30 days, and net is income - expenses; an actual income  *)
(* of 31 days ago is not in them and is in totalIncome.                    *)
C18_TrailingWindow ==
    (summary.rendered /\ NumericAmounts(ui.transactions, "actual")) =>
        LET list == ui.transactions
            income == AmountSum(list, Of(list, "actual", "income")
                                        \cap Trailing(list, now))
            expenses == AmountSum(list, Of(list, "actual", "expense")
                                          \cap Trailing(list, now))
        IN  /\ summary.figures.actualCashFlow30Days =
                  [income |-> Num(income), expenses |-> Num(expenses),
                   net |-> Num(income - expenses)]
            /\ summary.figures.totalIncome =
                  Num(AmountSum(list, Of(list, "actual", "income")))

\* actual incomes of 31 days ago and of exactly 30 days ago: both are in
\* totalIncome, the second one only is in the trailing figures
C18_ThirtyOneDaysAgo ==
    /\ summary.rendered
    /\ ui.transactions =
         <<[type |-> "income", status |-> "actual", amount |-> Num(5),
            date |-> Timestamp(now - 31 * HoursPerDay)],
           [type |-> "income", status |-> "actual", amount |-> Num(5),
            date |-> Timestamp(now - 30 * HoursPerDay)]>>
    /\ summary.figures.actualCashFlow30Days =
         [income |-> Num(5), expenses |-> Num(0), net |-> Num(5)]
    /\ summary.figures.totalIncome = Num(10)

-----------------------------------------------------------------------------
(* C19: variant 1: for every list with an entry whose amount is missing,   *)
(* null or not a number, the render raises no error (every figure printed  *)
(* is a number) and the figures are those of the list without that entry.  *)
C19_MalformedAmountIgnored ==
    summary.rendered =>
        \A i \in DOMAIN ui.transactions :
            (~IsNumber(ui.transactions[i].amount)
                    \/ ui.transactions[i].amount.nan) =>
                /\ ~summary.threw
                /\ summary.figures = Figures(Without(ui.transactions, i), now)

-----------------------------------------------------------------------------
(* C20: variant 1: for every transaction list the balance shown is         *)
(* totalIncome - totalExpenses, totalIncome being the sum of the amounts   *)
(* of the entries of type income and status actual, and totalExpenses the  *)
(* sum for type expense and status actual.                                 *)
C20_BalanceIsIncomeLessExpenses ==
    (summary.rendered /\ NumericAmounts(ui.transactions, "actual")) =>
        LET list == ui.transactions
            income == AmountSum(list, Of(list, "actual", "income"))
            expenses == AmountSum(list, Of(list, "actual", "expense"))
        IN  /\ summary.figures.totalIncome = Num(income)
            /\ summary.figures.totalExpenses = Num(expenses)
            /\ summary.figures.balance = Num(income - expenses)
            /\ summary.text[3] = toFixed2(Num(income - expenses))

\* an actual expense and a forecasted income: the balance shown is -5.00
C20_NegativeBalance ==
    /\ summary.rendered
    /\ Len(ui.transactions) = 2
    /\ ui.transactions[1].type = "expense"
    /\ ui.transactions[1].status = "actual"
    /\ ui.transactions[1].amount = Num(5)
    /\ ui.transactions[2].type = "income"
    /\ ui.transactions[2].status = "forecasted"
    /\ ui.transactions[2].amount = Num(5)
    /\ summary.figures.balance = Num(0 - 5)
    /\ summary.text[3] = <<"-", "5", ".", "0", "0">>

-----------------------------------------------------------------------------
(* C21: variant 1: for the empty list totalIncome, totalExpenses, balance  *)
(* and the income, expenses and net of the trailing and of the forward     *)
(* cash flow are all exactly zero, and the render raises no error.         *)
C21_EmptyListAllZero ==
    (summary.rendered /\ ui.transactions = <<>>) =>
        /\ summary.figures =
              [totalIncome |-> Num(0), totalExpenses |-> Num(0),
               balance |-> Num(0),
               actualCashFlow30Days |->
                   [income |-> Num(0), expenses |-> Num(0), net |-> Num(0)],
               forecastCashFlow30Days |->
                   [income |-> Num(0), expenses |-> Num(0), net |-> Num(0)]]
        /\ ~summary.threw
        /\ \A k \in 1..9 : summary.text[k] = <<"0", ".", "0", "0">>

\* the summary of the empty list, rendered in the afternoon
C21_EmptyListRendered ==
    /\ summary.rendered
    /\ ui.transactions = <<>>
    /\ now = Epoch + 13
    /\ summary.text[3] = <<"0", ".", "0", "0">>

-----------------------------------------------------------------------------
\* every callback and continuation of the auth events so far has run
AuthAtRest ==
    /\ variant = 1
    /\ initNotified
    /\ \A op \in pending : op.kind \notin {"auto", "login", "register", "logout"}

(* C22: variant 1: once all callbacks and continuations of an auth event   *)
(* have run, isAuthReady is true exactly when userId is set; in particular *)
(* the application does not rest with a signed-in user and isAuthReady     *)
(* false.                                                                  *)
C22_ReadyIffSignedIn ==
    AuthAtRest => (ui.isAuthReady <=> ui.userId # NoUser)

-----------------------------------------------------------------------------
\* the remote operations of variant 1 that a handler started and that have
\* not returned
InFlight ==
    {op \in pending :
        op.kind \in {"add", "delete", "login", "register", "logout"}}

(* C23: variant 1: whenever at least one remote operation started by a     *)
(* handler (create, confirmed delete, login, register, logout) is in       *)
(* flight, loading is true, also when two operations overlap and one of    *)
(* them returns before the other.                                          *)
C23_LoadingWhileInFlight ==
    (variant = 1 /\ InFlight # {}) => ui.loading

-----------------------------------------------------------------------------
====
